---------------------------- MODULE Spec2Model ----------------------------
(***************************************************************************)
(* The account router of src/server/routers/account.ts: createAccount,     *)
(* getAccounts, fundAccount and getTransactions, run by concurrent         *)
(* request handlers over one shared store (the accounts and transactions   *)
(* tables).  Every await of a handler is a point where another handler may *)
(* run, so each handler is cut into one action per store access.           *)
(*                                                                         *)
(* Money amounts are integers (minor units).  An account number is the     *)
(* offset of the drawn number from 1000000000.  A transaction row's        *)
(* description and processedAt are written and never read by the router,   *)
(* and are left out.                                                       *)
(***************************************************************************)
EXTENDS Integers, Sequences, FiniteSets

\* ------------------------------------------------------------- bounds
NumCalls == 3       \* requests issued in one run
NumUsers == 2       \* authenticated users (ctx.user.id)
MaxAmount == 2      \* largest funding amount a request carries
NumberSpace == 2    \* account numbers the generator can draw
MaxFaults == 1      \* requests that die in flight, and status flips

Calls == 1..NumCalls
Users == 1..NumUsers
AccountTypes == {"checking", "savings"}
Amounts == (0 - 1)..MaxAmount
Numbers == 0..(NumberSpace - 1)

VARIABLES
    accounts,       \* the accounts table: a sequence of rows, id = index
    transactions,   \* the transactions table: a sequence of rows, id = index
    calls,          \* one record per request: position, input, locals, outcome
    faults          \* in-flight deaths and status flips so far

vars == <<accounts, transactions, calls, faults>>

\* ------------------------------------------------------------- values
NoError == [code |-> "", message |-> ""]
NoAccount == [id |-> 0, userId |-> 0, accountNumber |-> 0 - 1, accountType |-> "",
              balance |-> 0, status |-> ""]
NoTransaction == [id |-> 0, accountId |-> 0, type |-> "", amount |-> 0,
                  status |-> "", createdAt |-> 0]

IdleCall == [pc |-> "idle", op |-> "", user |-> 0,
             accountType |-> "", accountId |-> 0, amount |-> 0,
             accountNumber |-> 0 - 1,        \* createAccount: let accountNumber
             account |-> NoAccount,          \* the row a handler read or returns
             transaction |-> NoTransaction,  \* fundAccount: const transaction
             newBalance |-> 0,               \* fundAccount: const newBalance
             rows |-> <<>>,                  \* getTransactions: accountTransactions
             enriched |-> <<>>,              \* getTransactions: enrichedTransactions
             owned |-> {},                   \* getAccounts: userAccounts
             err |-> NoError,
             txId |-> 0,                     \* history: id of the row this call inserted
             wrote |-> FALSE]                \* history: this call wrote a balance

Terminal == {"done", "failed", "crashed"}

\* ------------------------------------------------------------- the store
AccountIds == 1..Len(accounts)
TransactionIds == 1..Len(transactions)

\* select().from(accounts).where(pred).get(): the first matching row, or none
FirstAccount(ids) ==
    IF ids = {} THEN NoAccount
    ELSE accounts[CHOOSE i \in ids : \A j \in ids : i <= j]

\* where(and(eq(accounts.userId, u), eq(accounts.accountType, t)))
ExistingAccount_wrongType(u, t) ==
    FirstAccount({i \in AccountIds :
        accounts[i].userId = u /\ accounts[i].accountType # t})

ExistingAccount(u, t) ==
    FirstAccount({i \in AccountIds :
        accounts[i].userId = u /\ accounts[i].accountType = t})

\* where(eq(accounts.accountNumber, n))
AccountByNumber(n) ==
    FirstAccount({i \in AccountIds : accounts[i].accountNumber = n})

\* where(and(eq(accounts.id, id), eq(accounts.userId, u)))
OwnedAccount_anyOwner(id, u) == FirstAccount({i \in AccountIds : i = id})

OwnedAccount(id, u) ==
    FirstAccount({i \in AccountIds : i = id /\ accounts[i].userId = u})

\* where(eq(accounts.id, id))
AccountById(id) == FirstAccount({i \in AccountIds : i = id})

\* The table's uniqueness constraints, on accountNumber and on (userId,
\* accountType): the error the insert of row r raises, "" when it raises none.
UniqueViolation_numberOnly(r) ==
    IF \E i \in AccountIds : accounts[i].accountNumber = r.accountNumber
    THEN "UNIQUE constraint failed: accounts.account_number"
    ELSE ""

UniqueViolation_typeOnly(r) ==
    IF \E i \in AccountIds :
          accounts[i].userId = r.userId /\ accounts[i].accountType = r.accountType
    THEN "UNIQUE constraint failed: accounts.user_id, accounts.account_type"
    ELSE ""

UniqueViolation(r) ==
    IF \E i \in AccountIds : accounts[i].accountNumber = r.accountNumber
    THEN "UNIQUE constraint failed: accounts.account_number"
    ELSE IF \E i \in AccountIds :
                accounts[i].userId = r.userId /\ accounts[i].accountType = r.accountType
    THEN "UNIQUE constraint failed: accounts.user_id, accounts.account_type"
    ELSE ""

\* the rows of one account in the transactions table
TransactionsOf(id) == {i \in TransactionIds : transactions[i].accountId = id}

\* createdAt of a new row: the store's clock, which never runs backwards and may
\* stand still between two inserts
LastStamp ==
    IF transactions = <<>> THEN 0 ELSE transactions[Len(transactions)].createdAt

Stamps == IF transactions = <<>> THEN {1} ELSE {LastStamp, LastStamp + 1}

\* ------------------------------------------------------------- requests
Set(c, f) == calls' = [calls EXCEPT ![c] = f]

Fail(r, code, message) ==
    [r EXCEPT !.pc = "failed", !.err = [code |-> code, message |-> message]]

\* a request is taken up only after the requests before it (they are alike)
CanStart(c) ==
    /\ calls[c].pc = "idle"
    /\ \A d \in Calls : d < c => calls[d].pc # "idle"

\* The router compares user ids and account numbers for equality only, so runs
\* that differ by a renaming of them are alike: a request comes from a user seen
\* before or from the least user not yet seen, and the generator draws a number
\* drawn before or the least number not yet drawn.
SeenUsers == {calls[c].user : c \in Calls} \ {0}

RequestUsers == {u \in Users : \A v \in Users : v < u => v \in SeenUsers}

DrawnNumbers ==
    ({calls[c].accountNumber : c \in Calls}
        \cup {accounts[i].accountNumber : i \in AccountIds}) \ {0 - 1}

\* crypto.randomInt(1000000000, 9999999999).toString()
generateAccountNumber ==
    {n \in Numbers : \A m \in Numbers : m < n => m \in DrawnNumbers}

\* the message of the NOT_FOUND error thrown for a request naming id
NotFoundMessage_leaky(id) ==
    IF id \in AccountIds THEN "Account belongs to another user"
    ELSE "Account not found"

NotFoundMessage(id) == "Account not found"

\* ------------------------------------------------------------- createAccount
ConflictMessage(t) ==
    IF t = "checking" THEN "You already have a checking account"
    ELSE "You already have a savings account"

\* the request arrives and runs to its first await: the existence check
CreateAccountCheck(c) ==
    /\ CanStart(c)
    /\ \E u \in RequestUsers, t \in AccountTypes :
        LET r == [calls[c] EXCEPT !.op = "createAccount", !.user = u,
                                  !.accountType = t]
        IN  IF ExistingAccount(u, t) # NoAccount
            THEN Set(c, Fail(r, "CONFLICT", ConflictMessage(t)))
            ELSE Set(c, [r EXCEPT !.pc = "ca_generate"])
    /\ UNCHANGED <<accounts, transactions, faults>>

\* one turn of while (!isUnique): draw a number, look it up
CreateAccountGenerate(c) ==
    /\ calls[c].pc = "ca_generate"
    /\ \E n \in generateAccountNumber :
        IF AccountByNumber(n) = NoAccount
        THEN Set(c, [calls[c] EXCEPT !.pc = "ca_insert", !.accountNumber = n])
        ELSE Set(c, [calls[c] EXCEPT !.accountNumber = n])
    /\ UNCHANGED <<accounts, transactions, faults>>

\* db.insert(accounts).values({ userId, accountNumber, accountType, balance: 0,
\* status: "active" })
NewAccount_noStatus(c) ==
    [id |-> Len(accounts) + 1, userId |-> calls[c].user,
     accountNumber |-> calls[c].accountNumber,
     accountType |-> calls[c].accountType, balance |-> 0, status |-> "pending"]

NewAccount(c) ==
    [id |-> Len(accounts) + 1, userId |-> calls[c].user,
     accountNumber |-> calls[c].accountNumber,
     accountType |-> calls[c].accountType, balance |-> 0, status |-> "active"]

CreateAccountInsert(c) ==
    /\ calls[c].pc = "ca_insert"
    /\ LET v == UniqueViolation(NewAccount(c))
       IN  IF v # ""
           THEN /\ Set(c, Fail(calls[c], "INTERNAL_SERVER_ERROR", v))
                /\ UNCHANGED accounts
           ELSE /\ accounts' = Append(accounts, NewAccount(c))
                /\ Set(c, [calls[c] EXCEPT !.pc = "ca_fetch"])
    /\ UNCHANGED <<transactions, faults>>

CreateAccountFetch(c) ==
    /\ calls[c].pc = "ca_fetch"
    /\ LET a == AccountByNumber(calls[c].accountNumber)
       IN  IF a = NoAccount
           THEN Set(c, Fail(calls[c], "INTERNAL_SERVER_ERROR",
                            "Failed to create account"))
           ELSE Set(c, [calls[c] EXCEPT !.pc = "done", !.account = a])
    /\ UNCHANGED <<accounts, transactions, faults>>

\* ------------------------------------------------------------- fundAccount
\* z.number().gt(0) of the input schema, then if (amount <= 0) of the handler:
\* the message of the rejection, "" when the amount passes both
InvalidAmount_negativeOnly(a) ==
    IF a < 0 THEN "Amount must be greater than zero" ELSE ""

InvalidAmount(a) ==
    IF ~(a > 0) THEN "Amount must be greater than zero"
    ELSE IF a <= 0 THEN "Funding amount must be greater than zero"
    ELSE ""

\* if (account.status !== "active")
NotActive_never(a) == FALSE

NotActive(a) == a.status # "active"

\* the ids a request may name: every account there is, and one there is not
RequestIds == 1..(Len(accounts) + 1)

\* the request arrives, is validated, and runs to its first await: the
\* ownership select, with the two checks on its result
FundAccountSelect(c) ==
    /\ CanStart(c)
    /\ \E u \in RequestUsers, id \in RequestIds, amt \in Amounts :
        LET r == [calls[c] EXCEPT !.op = "fundAccount", !.user = u,
                                  !.accountId = id, !.amount = amt]
            a == OwnedAccount(id, u)
        IN  IF InvalidAmount(amt) # ""
            THEN Set(c, Fail(r, "BAD_REQUEST", InvalidAmount(amt)))
            ELSE IF a = NoAccount
            THEN Set(c, Fail(r, "NOT_FOUND", NotFoundMessage(id)))
            ELSE IF NotActive(a)
            THEN Set(c, Fail(r, "BAD_REQUEST", "Account is not active"))
            ELSE Set(c, [r EXCEPT !.pc = "fa_insert", !.account = a])
    /\ UNCHANGED <<accounts, transactions, faults>>

NewTransaction(c, stamp) ==
    [id |-> Len(transactions) + 1, accountId |-> calls[c].accountId,
     type |-> "deposit", amount |-> calls[c].amount, status |-> "completed",
     createdAt |-> stamp]

FundAccountInsert(c) ==
    /\ calls[c].pc = "fa_insert"
    /\ \E stamp \in Stamps :
        transactions' = Append(transactions, NewTransaction(c, stamp))
    /\ Set(c, [calls[c] EXCEPT !.pc = "fa_fetch", !.txId = Len(transactions) + 1])
    /\ UNCHANGED <<accounts, faults>>

\* where(eq(transactions.accountId, id)).orderBy(transactions.createdAt).limit(1):
\* a row of the account with the least createdAt (which one of several is the
\* store's choice)
OldestOf(id) ==
    {i \in TransactionsOf(id) :
        \A j \in TransactionsOf(id) :
            transactions[i].createdAt <= transactions[j].createdAt}

FundAccountFetch(c) ==
    /\ calls[c].pc = "fa_fetch"
    /\ \E i \in OldestOf(calls[c].accountId) :
        Set(c, [calls[c] EXCEPT !.pc = "fa_update", !.transaction = transactions[i]])
    /\ UNCHANGED <<accounts, transactions, faults>>

\* const newBalance = account.balance + amount
NewBalance_twice(c) == calls[c].account.balance + calls[c].amount + calls[c].amount

NewBalance(c) == calls[c].account.balance + calls[c].amount

\* update(accounts).set({ balance }).where(eq(accounts.id, id))
SetBalance_andStatus(id, b) ==
    [accounts EXCEPT ![id].balance = b, ![id].status = "active"]

SetBalance_noWhere(id, b) ==
    [i \in DOMAIN accounts |-> [accounts[i] EXCEPT !.balance = b]]

SetBalance(id, b) == [accounts EXCEPT ![id].balance = b]

FundAccountUpdate(c) ==
    /\ calls[c].pc = "fa_update"
    /\ accounts' = SetBalance(calls[c].accountId, NewBalance(c))
    /\ Set(c, [calls[c] EXCEPT !.pc = "done", !.newBalance = NewBalance(c),
                               !.wrote = TRUE])
    /\ UNCHANGED <<transactions, faults>>

\* ------------------------------------------------------------- getAccounts
\* select().from(accounts).where(eq(accounts.userId, u))
AccountsOf_noWhere(u) == {accounts[i] : i \in AccountIds}

AccountsOf(u) == {accounts[i] : i \in {j \in AccountIds : accounts[j].userId = u}}

GetAccounts(c) ==
    /\ CanStart(c)
    /\ \E u \in RequestUsers :
        Set(c, [calls[c] EXCEPT !.op = "getAccounts", !.user = u, !.pc = "done",
                                !.owned = AccountsOf(u)])
    /\ UNCHANGED <<accounts, transactions, faults>>

\* ------------------------------------------------------------- getTransactions
\* where(eq(transactions.accountId, id)).orderBy(desc(transactions.createdAt)):
\* the orders the store may return the account's rows in
NewestFirst(id) ==
    LET ids == TransactionsOf(id)
        n == Cardinality(ids)
    IN  {s \in [1..n -> ids] :
            /\ \A i, j \in 1..n : i # j => s[i] # s[j]
            /\ \A i, j \in 1..n :
                i < j => transactions[s[i]].createdAt >= transactions[s[j]].createdAt}

RowsOf(s) == [i \in 1..Len(s) |-> transactions[s[i]]]

\* the request arrives and runs to its first await: the ownership select
GetTransactionsSelect(c) ==
    /\ CanStart(c)
    /\ \E u \in RequestUsers, id \in RequestIds :
        LET r == [calls[c] EXCEPT !.op = "getTransactions", !.user = u,
                                  !.accountId = id]
            a == OwnedAccount(id, u)
        IN  IF a = NoAccount
            THEN Set(c, Fail(r, "NOT_FOUND", NotFoundMessage(id)))
            ELSE Set(c, [r EXCEPT !.pc = "gt_list", !.account = a])
    /\ UNCHANGED <<accounts, transactions, faults>>

\* the select of the rows; with no row the loop body never runs
GetTransactionsList(c) ==
    /\ calls[c].pc = "gt_list"
    /\ \E s \in NewestFirst(calls[c].accountId) :
        Set(c, [calls[c] EXCEPT !.rows = RowsOf(s),
                                !.pc = IF s = <<>> THEN "done" ELSE "gt_enrich"])
    /\ UNCHANGED <<accounts, transactions, faults>>

\* { ...transaction, accountType: accountDetails?.accountType }
Enrich(t) ==
    [id |-> t.id, accountId |-> t.accountId, type |-> t.type, amount |-> t.amount,
     status |-> t.status, createdAt |-> t.createdAt,
     accountType |-> AccountById(t.accountId).accountType]

\* one turn of for (const transaction of accountTransactions)
GetTransactionsEnrich(c) ==
    /\ calls[c].pc = "gt_enrich"
    /\ LET k == Len(calls[c].enriched) + 1
       IN  Set(c, [calls[c] EXCEPT
                !.enriched = Append(@, Enrich(calls[c].rows[k])),
                !.pc = IF k = Len(calls[c].rows) THEN "done" ELSE "gt_enrich"])
    /\ UNCHANGED <<accounts, transactions, faults>>

\* ------------------------------------------------------------- the environment
\* a handler dies at an await (the process stops, the store throws): what it
\* has written so far stays written
Crash(c) ==
    /\ calls[c].pc \notin {"idle"} \cup Terminal
    /\ faults < MaxFaults
    /\ faults' = faults + 1
    /\ Set(c, [calls[c] EXCEPT !.pc = "crashed"])
    /\ UNCHANGED <<accounts, transactions>>

\* an account's status is changed from outside the router (active <-> inactive)
SetStatus(id) ==
    /\ id \in AccountIds
    /\ faults < MaxFaults
    /\ faults' = faults + 1
    /\ accounts' = [accounts EXCEPT ![id].status =
                        IF @ = "active" THEN "inactive" ELSE "active"]
    /\ UNCHANGED <<transactions, calls>>

Init ==
    /\ accounts = <<>>
    /\ transactions = <<>>
    /\ calls = [c \in Calls |-> IdleCall]
    /\ faults = 0

Step(c) ==
        \/ CreateAccountCheck(c)
        \/ CreateAccountGenerate(c)
        \/ CreateAccountInsert(c)
        \/ CreateAccountFetch(c)
        \/ FundAccountSelect(c)
        \/ FundAccountInsert(c)
        \/ FundAccountFetch(c)
        \/ FundAccountUpdate(c)
        \/ GetAccounts(c)
        \/ GetTransactionsSelect(c)
        \/ GetTransactionsList(c)
        \/ GetTransactionsEnrich(c)

Next ==
    \/ \E c \in Calls : Step(c)
    \/ \E c \in Calls : Crash(c)
    \/ \E id \in AccountIds : SetStatus(id)

Spec == Init /\ [][Next]_vars

\* ============================================================= properties
RECURSIVE SumUpTo(_, _)
\* the sum of amount over the completed deposits of account id among the
\* first k rows of the transactions table
SumUpTo(id, k) ==
    IF k = 0 THEN 0
    ELSE SumUpTo(id, k - 1) +
         (IF /\ transactions[k].accountId = id
             /\ transactions[k].type = "deposit"
             /\ transactions[k].status = "completed"
          THEN transactions[k].amount ELSE 0)

CompletedDeposits(id) == SumUpTo(id, Len(transactions))

\* no handler is between two of its store accesses, and none died there
Quiescent == \A c \in Calls : calls[c].pc \in {"idle", "done", "failed"}

\* the fundAccount calls that passed the checks on account id
Funders(id) ==
    {c \in Calls : /\ calls[c].op = "fundAccount"
                   /\ calls[c].accountId = id
                   /\ calls[c].pc # "failed"}

\* C1: each account's stored balance equals the sum of the amounts of its
\* completed deposit Transaction records.  Stated at the states the claim's
\* "every reachable state" includes whatever one makes of a call in flight:
\* those where every call issued has returned.
C1_BalanceEqualsCompletedDeposits ==
    Quiescent =>
        \A i \in AccountIds : accounts[i].balance = CompletedDeposits(i)

\* C2: when the fundAccount calls on an account (fresh: every account starts at
\* balance 0) are N calls of the same amount a and all have completed, the
\* balance is N * a and the account has exactly N Transaction records, in
\* every interleaving of the calls.
C2_NoLostUpdate ==
    \A i \in AccountIds, a \in 1..MaxAmount :
        LET F == Funders(i)
        IN  (/\ F # {}
             /\ \A c \in F : calls[c].pc = "done" /\ calls[c].amount = a)
            => /\ accounts[i].balance = Cardinality(F) * a
               /\ Cardinality(TransactionsOf(i)) = Cardinality(F)

\* C3: for each owner and each account type at most one Account record exists.
C3_OneAccountPerOwnerAndType ==
    \A i, j \in AccountIds :
        (/\ accounts[i].userId = accounts[j].userId
         /\ accounts[i].accountType = accounts[j].accountType) => i = j

\* C3's case: two createAccount calls of one owner and type both passed the
\* existence check; one has inserted and the other's insert was refused.
C3_Witness ==
    \E c, d \in Calls :
        /\ c # d
        /\ calls[c].op = "createAccount" /\ calls[d].op = "createAccount"
        /\ calls[c].user = calls[d].user
        /\ calls[c].accountType = calls[d].accountType
        /\ calls[c].pc = "done"
        /\ calls[d].pc = "failed"
        /\ calls[d].err.message =
              "UNIQUE constraint failed: accounts.user_id, accounts.account_type"

\* C4: no two Account records hold the same accountNumber.
C4_UniqueAccountNumbers ==
    \A i, j \in AccountIds :
        accounts[i].accountNumber = accounts[j].accountNumber => i = j

\* C4's case: two createAccount calls drew the same candidate number and both
\* passed the lookup before either inserted.
C4_Witness ==
    \E c, d \in Calls :
        /\ c # d
        /\ calls[c].op = "createAccount" /\ calls[d].op = "createAccount"
        /\ calls[c].accountNumber = calls[d].accountNumber
        /\ calls[c].pc = "done"
        /\ calls[d].pc = "failed"
        /\ calls[d].err.message = "UNIQUE constraint failed: accounts.account_number"

\* C5: a fundAccount call that failed or died has applied both of its writes
\* (the Transaction insert, the balance update) or neither.
C5_FundWritesAreAtomic ==
    \A c \in Calls :
        (calls[c].op = "fundAccount" /\ calls[c].pc \in {"failed", "crashed"})
            => ((calls[c].txId # 0) <=> calls[c].wrote)

\* C6: the newBalance a fundAccount call returns is the stored balance right
\* after its balance update, and that is the stored balance right before the
\* update plus the call's amount.
C6_ReturnedBalanceIsIncrement ==
    [][\A c \in Calls :
        (calls[c].pc = "fa_update" /\ calls'[c].pc = "done") =>
            LET id == calls[c].accountId
            IN  /\ calls'[c].newBalance = accounts'[id].balance
                /\ accounts'[id].balance = accounts[id].balance + calls[c].amount
      ]_vars

\* C7: the transaction a successful fundAccount call returns is the row that
\* call inserted: same id, the call's amount, status completed.  Stated for the
\* accounts whose rows all differ in createdAt, where the store has no choice
\* of the row it returns.
C7_ReturnedTransactionIsOwn ==
    \A c \in Calls :
        (/\ calls[c].op = "fundAccount" /\ calls[c].pc = "done"
         /\ \A i, j \in TransactionsOf(calls[c].accountId) :
               transactions[i].createdAt = transactions[j].createdAt => i = j) =>
            /\ calls[c].transaction.id = calls[c].txId
            /\ calls[c].transaction.amount = calls[c].amount
            /\ calls[c].transaction.status = "completed"

\* C8: createAccount by an owner who already has an account of the requested
\* type fails with CONFLICT and leaves the accounts table as it was; a failed
\* call takes no further step.
C8_DuplicateTypeRejected ==
    [][\A c \in Calls :
        /\ (/\ calls[c].pc = "idle"
            /\ calls'[c].op = "createAccount"
            /\ \E i \in AccountIds :
                  /\ accounts[i].userId = calls'[c].user
                  /\ accounts[i].accountType = calls'[c].accountType)
           => /\ calls'[c].pc = "failed"
              /\ calls'[c].err.code = "CONFLICT"
              /\ accounts' = accounts
        /\ calls[c].pc = "failed" => calls'[c] = calls[c]
      ]_vars

C8_Witness ==
    \E c, d \in Calls :
        /\ calls[c].op = "createAccount" /\ calls[c].pc = "done"
        /\ calls[d].op = "createAccount" /\ calls[d].pc = "failed"
        /\ calls[d].user = calls[c].user
        /\ calls[d].accountType = calls[c].accountType
        /\ calls[d].err.code = "CONFLICT"

\* C9: fundAccount with a valid amount on the caller's own account whose status
\* is not active fails with the inactive-account error and leaves the accounts
\* table (every balance) and the transactions table as they were.
C9_InactiveAccountRejected ==
    [][\A c \in Calls :
        (/\ calls[c].pc = "idle"
         /\ calls'[c].op = "fundAccount"
         /\ calls'[c].amount > 0
         /\ calls'[c].accountId \in AccountIds
         /\ accounts[calls'[c].accountId].userId = calls'[c].user
         /\ accounts[calls'[c].accountId].status # "active")
        => /\ calls'[c].pc = "failed"
           /\ calls'[c].err = [code |-> "BAD_REQUEST",
                               message |-> "Account is not active"]
           /\ accounts' = accounts
           /\ transactions' = transactions
      ]_vars

C9_Witness ==
    \E c \in Calls :
        /\ calls[c].op = "fundAccount" /\ calls[c].pc = "failed"
        /\ calls[c].accountId \in AccountIds
        /\ accounts[calls[c].accountId].userId = calls[c].user
        /\ accounts[calls[c].accountId].status = "inactive"
        /\ calls[c].err.message = "Account is not active"

\* C10: fundAccount with an amount that is zero or negative fails with the
\* invalid-amount error whatever the store holds (the account may be missing,
\* another user's or inactive: the amount is rejected first), inserts no
\* Transaction and writes no balance.
C10_NonPositiveAmountRejected ==
    [][\A c \in Calls :
        (/\ calls[c].pc = "idle"
         /\ calls'[c].op = "fundAccount"
         /\ calls'[c].amount <= 0)
        => /\ calls'[c].pc = "failed"
           /\ calls'[c].err.code = "BAD_REQUEST"
           /\ calls'[c].err.message \in
                 {"Amount must be greater than zero",
                  "Funding amount must be greater than zero"}
           /\ accounts' = accounts
           /\ transactions' = transactions
      ]_vars

C10_Witness ==
    \E c, d \in Calls :
        /\ calls[c].op = "fundAccount" /\ calls[c].amount = 0
        /\ calls[c].pc = "failed" /\ calls[c].err.code = "BAD_REQUEST"
        /\ calls[d].op = "fundAccount" /\ calls[d].amount < 0
        /\ calls[d].pc = "failed" /\ calls[d].err.code = "BAD_REQUEST"
        /\ calls[d].accountId \in AccountIds

\* the request of call c names an account that exists and is another user's
\* (read in a step that takes the request up: the input is in calls')
NamesForeignAccount(c) ==
    /\ calls'[c].accountId \in AccountIds
    /\ accounts[calls'[c].accountId].userId # calls'[c].user

\* call c takes up a fundAccount request with a valid amount, or a
\* getTransactions request
TakesUpAccountRequest(c) ==
    /\ calls[c].pc = "idle"
    /\ \/ calls'[c].op = "fundAccount" /\ calls'[c].amount > 0
       \/ calls'[c].op = "getTransactions"

\* C11: fundAccount (with a valid amount) and getTransactions on an account
\* owned by a different user fail with NOT_FOUND and leave every account and
\* the transactions table as they were.
C11_ForeignAccountNotFound ==
    [][\A c \in Calls :
        (TakesUpAccountRequest(c) /\ NamesForeignAccount(c))
        => /\ calls'[c].pc = "failed"
           /\ calls'[c].err.code = "NOT_FOUND"
           /\ accounts' = accounts
           /\ transactions' = transactions
      ]_vars

C11_Witness ==
    \E c, d \in Calls :
        /\ calls[c].op = "fundAccount" /\ calls[d].op = "getTransactions"
        /\ \A e \in {c, d} :
            /\ calls[e].pc = "failed"
            /\ calls[e].err.code = "NOT_FOUND"
            /\ calls[e].accountId \in AccountIds
            /\ accounts[calls[e].accountId].userId # calls[e].user

\* C12: the outcome of fundAccount or getTransactions by a user on an account
\* id that user does not own is a function of the request alone: the same
\* error, message and (unchanged) store whether the id names no account or
\* another user's account, whatever that account's status, balance and rows.
C12_MissingAndForeignAlike ==
    [][\A c \in Calls :
        (/\ TakesUpAccountRequest(c)
         /\ ~(/\ calls'[c].accountId \in AccountIds
              /\ accounts[calls'[c].accountId].userId = calls'[c].user))
        => /\ calls'[c] = [IdleCall EXCEPT
                            !.op = calls'[c].op, !.user = calls'[c].user,
                            !.accountId = calls'[c].accountId,
                            !.amount = calls'[c].amount,
                            !.pc = "failed",
                            !.err = [code |-> "NOT_FOUND",
                                     message |-> "Account not found"]]
           /\ accounts' = accounts
           /\ transactions' = transactions
      ]_vars

\* C12's case: one user, one operation, once on an id that names no account
\* and once on another user's account, with the same error
C12_Witness ==
    \E c, d \in Calls :
        /\ calls[c].op = calls[d].op
        /\ calls[c].op \in {"fundAccount", "getTransactions"}
        /\ calls[c].user = calls[d].user
        /\ calls[c].pc = "failed" /\ calls[d].pc = "failed"
        /\ calls[c].accountId \notin AccountIds
        /\ calls[d].accountId \in AccountIds
        /\ accounts[calls[d].accountId].userId # calls[d].user
        /\ calls[c].err = calls[d].err
        /\ calls[c].err.code = "NOT_FOUND"

\* every handler that can take a step eventually takes one: the event loop
\* runs each continuation that is ready
FairSpec == Spec /\ \A c \in Calls : WF_vars(Step(c))

\* every number the generator can draw is held by an account
NumbersExhausted ==
    \A n \in Numbers : \E i \in AccountIds : accounts[i].accountNumber = n

\* C13: the account-number allocation of createAccount terminates: a call that
\* is generating when the number space is exhausted leaves the loop (the claim:
\* by failing with AllocationExhausted after a bounded number of attempts).
C13_AllocationTerminates ==
    \A c \in Calls :
        [](calls[c].pc = "ca_generate" /\ NumbersExhausted
            => <>(calls[c].pc # "ca_generate"))

\* the rows of account id whose fundAccount call has completed
CommittedOf(id) ==
    {i \in TransactionsOf(id) :
        \E d \in Calls : calls[d].txId = i /\ calls[d].pc = "done"}

\* the ids of the rows of a sequence
IdsOf(r) == {r[k].id : k \in 1..Len(r)}

\* the rows of r come from the most recently created to the earliest created
NewestCreatedFirst(r) == \A j, k \in 1..Len(r) : j < k => r[j].id > r[k].id

\* C14: getTransactions on the caller's own account returns exactly the
\* committed Transaction records of the account, each once, from the most
\* recently created to the earliest created, each with the accountType of the
\* account.  Stated at the handler's read of the rows (the latest moment the
\* claim's "before the call began" can mean) and at each turn of its loop.
C14_HistoryCommittedNewestFirst ==
    [][\A c \in Calls :
        /\ (calls[c].pc = "gt_list" /\ calls'[c].pc \in {"gt_enrich", "done"})
           => LET r == calls'[c].rows
              IN  /\ IdsOf(r) = CommittedOf(calls[c].accountId)
                  /\ Len(r) = Cardinality(IdsOf(r))
                  /\ NewestCreatedFirst(r)
        /\ (calls[c].pc = "gt_enrich" /\ calls'[c].pc \in {"gt_enrich", "done"}
                /\ calls'[c] # calls[c])
           => LET k == Len(calls'[c].enriched)
              IN  /\ k = Len(calls[c].enriched) + 1
                  /\ calls'[c].enriched[k].id = calls[c].rows[k].id
                  /\ calls'[c].enriched[k].accountType =
                        accounts[calls[c].accountId].accountType
      ]_vars

\* ------------------------------------------------------------- sequential runs
\* One more request than Spec takes, each issued after the one before it has
\* returned: no two handlers are in flight together, and none dies.
SeqCallIds == 1..(NumCalls + 1)

SeqInit ==
    /\ accounts = <<>>
    /\ transactions = <<>>
    /\ calls = [c \in SeqCallIds |-> IdleCall]
    /\ faults = 0

\* every other request has returned or is yet to come
SeqTurn(c) ==
    \A d \in SeqCallIds \ {c} : calls[d].pc \in {"idle", "done", "failed"}

SeqNext ==
    \E c \in SeqCallIds :
        \/ SeqTurn(c) /\ CreateAccountCheck(c)
        \/ SeqTurn(c) /\ CreateAccountGenerate(c)
        \/ SeqTurn(c) /\ CreateAccountInsert(c)
        \/ SeqTurn(c) /\ CreateAccountFetch(c)
        \/ SeqTurn(c) /\ FundAccountSelect(c)
        \/ SeqTurn(c) /\ FundAccountInsert(c)
        \/ SeqTurn(c) /\ FundAccountFetch(c)
        \/ SeqTurn(c) /\ FundAccountUpdate(c)
        \/ SeqTurn(c) /\ GetAccounts(c)
        \/ SeqTurn(c) /\ GetTransactionsSelect(c)
        \/ SeqTurn(c) /\ GetTransactionsList(c)
        \/ SeqTurn(c) /\ GetTransactionsEnrich(c)

SeqSpec == SeqInit /\ [][SeqNext]_vars

\* the rows of account id inserted by the calls before call c
RowsBefore(id, c) ==
    {calls[d].txId : d \in {e \in SeqCallIds :
        /\ e < c
        /\ calls[e].op = "fundAccount"
        /\ calls[e].accountId = id
        /\ calls[e].txId # 0}}

RECURSIVE SumOfRows(_)
SumOfRows(ids) ==
    IF ids = {} THEN 0
    ELSE LET i == CHOOSE j \in ids : TRUE
         IN  transactions[i].amount + SumOfRows(ids \ {i})

\* C15: in a sequential run, the k-th successful fundAccount call on an account
\* returns newBalance = a1 + ... + ak, the account then has exactly k
\* Transaction records, all completed, and getTransactions returns the
\* account's records newest-first.
C15_SequentialScenario ==
    \A c \in SeqCallIds :
        /\ (calls[c].op = "fundAccount" /\ calls[c].pc = "done")
           => LET mine == RowsBefore(calls[c].accountId, c) \cup {calls[c].txId}
              IN  /\ calls[c].newBalance = SumOfRows(mine)
                  /\ \A i \in mine : transactions[i].status = "completed"
                  /\ {i \in TransactionsOf(calls[c].accountId) : i <= calls[c].txId}
                        = mine
        /\ (calls[c].op = "getTransactions" /\ calls[c].pc = "done")
           => /\ IdsOf(calls[c].enriched) = RowsBefore(calls[c].accountId, c)
              /\ Len(calls[c].enriched)
                    = Cardinality(RowsBefore(calls[c].accountId, c))
              /\ NewestCreatedFirst(calls[c].enriched)

\* C16: a successful createAccount(accountType) by owner U persists exactly one
\* new Account, with ownerId U, the requested accountType, balance 0 and status
\* active, and returns the stored record of that account (owner and type the
\* caller's), whatever other createAccount calls do meanwhile.
C16_CreateAccountPersistsAndReturns ==
    [][\A c \in Calls :
        (calls'[c] # calls[c] /\ calls'[c].op = "createAccount") =>
            /\ IF calls[c].pc = "ca_insert" /\ calls'[c].pc = "ca_fetch"
               THEN accounts' = Append(accounts,
                        [id |-> Len(accounts) + 1, userId |-> calls[c].user,
                         accountNumber |-> calls[c].accountNumber,
                         accountType |-> calls[c].accountType,
                         balance |-> 0, status |-> "active"])
               ELSE accounts' = accounts
            /\ calls'[c].pc = "done" =>
                /\ calls[c].pc = "ca_fetch"
                /\ \E i \in AccountIds : accounts[i] = calls'[c].account
                /\ calls'[c].account.userId = calls[c].user
                /\ calls'[c].account.accountType = calls[c].accountType
                /\ calls'[c].account.accountNumber = calls[c].accountNumber
      ]_vars

\* C16's case: a createAccount call has returned its account while another
\* createAccount call, which inserted before it, is still in flight
C16_Witness ==
    \E c, d \in Calls :
        /\ c # d
        /\ calls[c].op = "createAccount" /\ calls[c].pc = "done"
        /\ calls[d].op = "createAccount" /\ calls[d].pc = "ca_fetch"
        /\ calls[c].account.id = 2
        /\ calls[c].account.userId = calls[c].user

\* C17: a fundAccount call on account A leaves every other account unchanged
\* (balance, status, owner, type, accountNumber) and adds no Transaction record
\* of another account; createAccount changes no existing account and no
\* Transaction record.  So operations on different accounts never affect each
\* other's state, in any interleaving.
C17_OtherAccountsUntouched ==
    [][\A c \in Calls :
        calls'[c] # calls[c] =>
            /\ calls'[c].op = "fundAccount" =>
                /\ Len(accounts') = Len(accounts)
                /\ \A b \in AccountIds :
                       b # calls'[c].accountId => accounts'[b] = accounts[b]
                /\ Len(transactions') >= Len(transactions)
                /\ \A k \in 1..Len(transactions') :
                       \/ /\ k <= Len(transactions)
                          /\ transactions'[k] = transactions[k]
                       \/ /\ k > Len(transactions)
                          /\ transactions'[k].accountId = calls'[c].accountId
            /\ calls'[c].op = "createAccount" =>
                /\ Len(accounts') >= Len(accounts)
                /\ \A b \in AccountIds : accounts'[b] = accounts[b]
                /\ transactions' = transactions
      ]_vars

\* C17's case: a fundAccount call has written the balance of one of two
\* accounts
C17_Witness ==
    \E c \in Calls :
        /\ calls[c].op = "fundAccount" /\ calls[c].pc = "done" /\ calls[c].wrote
        /\ Len(accounts) = 2
        /\ \E b \in AccountIds :
               b # calls[c].accountId /\ accounts[b].balance = 0

\* C18: getTransactions and getAccounts are read-only: whether they succeed or
\* fail, no step of theirs changes an Account record (balances included) or a
\* Transaction record; and getAccounts returns exactly the accounts whose owner
\* is the caller.
C18_ReadsAreReadOnly ==
    [][\A c \in Calls :
        (calls'[c] # calls[c] /\ calls'[c].op \in {"getAccounts", "getTransactions"}) =>
            /\ accounts' = accounts
            /\ transactions' = transactions
            /\ (calls'[c].op = "getAccounts" /\ calls'[c].pc = "done") =>
                   calls'[c].owned =
                       {accounts[i] : i \in {j \in AccountIds :
                                          accounts[j].userId = calls'[c].user}}
      ]_vars

\* C18's case: getAccounts has returned the caller's account while another
\* owner's account is stored too
C18_Witness ==
    \E c \in Calls :
        /\ calls[c].op = "getAccounts" /\ calls[c].pc = "done"
        /\ calls[c].owned # {}
        /\ \E i \in AccountIds : accounts[i].userId # calls[c].user

\* C19: the Transaction log is append-only and accounts are permanent: no step
\* deletes or modifies an existing Transaction record, deletes an Account, or
\* changes an existing Account's id, ownerId, accountNumber or accountType; the
\* only field of an existing record that an operation writes is an Account's
\* balance, and only fundAccount (its update, on the account it names) writes
\* it.  A status changes only outside the four operations.
C19_AppendOnlyAndPermanent ==
    [][/\ Len(transactions') >= Len(transactions)
       /\ \A k \in TransactionIds : transactions'[k] = transactions[k]
       /\ Len(accounts') >= Len(accounts)
       /\ \A i \in AccountIds :
            /\ accounts'[i].id = accounts[i].id
            /\ accounts'[i].userId = accounts[i].userId
            /\ accounts'[i].accountNumber = accounts[i].accountNumber
            /\ accounts'[i].accountType = accounts[i].accountType
            /\ accounts'[i].balance # accounts[i].balance =>
                 \E c \in Calls :
                    /\ calls[c].op = "fundAccount"
                    /\ calls[c].accountId = i
                    /\ calls[c].pc = "fa_update" /\ calls'[c].pc = "done"
            /\ accounts'[i].status # accounts[i].status => calls' = calls
      ]_vars

\* C19's case: a fundAccount call has written the balance of an account whose
\* status was changed meanwhile, with the call's Transaction record in the log
C19_Witness ==
    \E c \in Calls :
        /\ calls[c].op = "fundAccount" /\ calls[c].pc = "done" /\ calls[c].wrote
        /\ accounts[calls[c].accountId].status # "active"
        /\ accounts[calls[c].accountId].balance > 0
        /\ calls[c].txId \in TransactionIds

=============================================================================
